---- MODULE Spec2Model ----
(***************************************************************************)
(* Server-side user management of buidlerfi (frontend/backend/user/user.ts) *)
(* as a state machine: invite-gated registration (createUser) and the      *)
(* challenge-response wallet linking (generateChallenge, linkNewWallet).   *)
(*                                                                         *)
(* The persistent store is the three prisma tables the functions touch.    *)
(* Every request is an async function: it runs from one await to the next  *)
(* without interruption, and requests interleave at their awaits.  One     *)
(* action of the model is one such segment: the store call being awaited   *)
(* followed by the synchronous code up to the next await or return.        *)
(* Strings whose content the code transforms (trim, toLowerCase) are       *)
(* sequences of one-character strings.  The clock counts half minutes.     *)
(***************************************************************************)
EXTENDS Integers, Sequences, FiniteSets, TLC

VARIABLES
    users,            \* prisma.user: sequence of rows, the row's id is its index
    inviteCodes,      \* prisma.inviteCode: sequence of rows, id is the index
    challenges,       \* prisma.signingChallenge: set of rows
    now,              \* wall clock, in half minutes
    calls,            \* number of calls started so far
    pc,               \* per request: the await it is suspended at
    frame,            \* per request: arguments and locals of the running call
    result,           \* per request: what its last call returned or threw
    data,             \* per request: the row returned in {data}, <<>> if none
    errorLogged       \* console.error has been called (linkNewWallet's catch)

vars == <<users, inviteCodes, challenges, now, calls, pc, frame, result, data, errorLogged>>

(***************************************************************************)
(* Bounds of the model.                                                    *)
(***************************************************************************)
NumReqs == 2          \* requests in flight at the same time
MaxNow == 32          \* the clock stops here (16 minutes)
CodeMaxUses == 1      \* maxUses of the invite codes in the store
MaxCalls == 3         \* calls started in one behaviour

Reqs == 1..NumReqs

(***************************************************************************)
(* Strings.                                                                *)
(***************************************************************************)
Whitespace == {" "}

RECURSIVE trimStart(_)
trimStart(s) ==
    IF s # <<>> /\ Head(s) \in Whitespace THEN trimStart(Tail(s)) ELSE s

RECURSIVE trimEnd(_)
trimEnd(s) ==
    IF s # <<>> /\ s[Len(s)] \in Whitespace
    THEN trimEnd(SubSeq(s, 1, Len(s) - 1))
    ELSE s

trim(s) == trimEnd(trimStart(s))

LowerChar(c) ==
    CASE c = "A" -> "a"
      [] c = "B" -> "b"
      [] c = "C" -> "c"
      [] c = "D" -> "d"
      [] c = "E" -> "e"
      [] c = "F" -> "f"
      [] OTHER -> c

toLowerCase(s) == [i \in 1..Len(s) |-> LowerChar(s[i])]

(***************************************************************************)
(* The identity provider (privyClient.getUser): a fixed directory.  alice  *)
(* and bob hold an embedded wallet, carol only an external one and an      *)
(* email, and "nobody" is unknown to the provider.                         *)
(***************************************************************************)
Account(type, walletClientType, connectorType, address) ==
    [type |-> type, walletClientType |-> walletClientType,
     connectorType |-> connectorType, address |-> address]

PrivyDirectory ==
    [id \in {"alice", "bob", "carol"} |->
        CASE id = "alice" ->
               << Account("email", "", "", <<>>),
                  Account("wallet", "metamask", "injected", <<"0", "x", "E", "1">>),
                  Account("wallet", "privy", "embedded", <<"0", "x", "A", "1">>) >>
          [] id = "bob" ->
               << Account("wallet", "privy", "embedded", <<"0", "x", "B", "2">>) >>
          [] OTHER ->
               << Account("wallet", "metamask", "injected", <<"0", "x", "C", "3">>) >> ]

PrivyIds == {"alice", "bob", "carol", "nobody"}

\* privyClient.getUser: <<>> is null
getUser(id) ==
    IF id \in DOMAIN PrivyDirectory
    THEN << [id |-> id, linkedAccounts |-> PrivyDirectory[id]] >>
    ELSE <<>>

\* linkedAccounts.find(...): the first matching account, <<>> is undefined
embeddedWallet(privyUser) ==
    LET acc == privyUser.linkedAccounts
        hit == {i \in 1..Len(acc) :
                   /\ acc[i].type = "wallet"
                   /\ acc[i].walletClientType = "privy"
                   /\ acc[i].connectorType = "embedded"}
    IN IF hit = {} THEN <<>>
       ELSE << acc[CHOOSE i \in hit : \A j \in hit : i <= j] >>

(***************************************************************************)
(* Store queries.                                                          *)
(***************************************************************************)
\* prisma.user.findUnique({ where: { privyUserId } }): the row's id, 0 is null
findUserByPrivyId(us, id) ==
    LET hit == {i \in 1..Len(us) : us[i].privyUserId = id}
    IN IF hit = {} THEN 0 ELSE CHOOSE i \in hit : \A j \in hit : i <= j

\* prisma.inviteCode.findUnique({ where: { code } }): <<>> is null
findInviteCode(codes, text) ==
    LET hit == {i \in 1..Len(codes) : codes[i].code = text}
    IN IF hit = {} THEN <<>>
       ELSE LET i == CHOOSE k \in hit : TRUE
            IN << [id |-> i, code |-> codes[i].code, isActive |-> codes[i].isActive,
                   used |-> codes[i].used, maxUses |-> codes[i].maxUses] >>

\* the rows of signingChallenge with this userId
challengesOf(chs, uid) == {c \in chs : c.userId = uid}

(***************************************************************************)
(* Requests.  A frame holds the arguments and locals of a call, under the  *)
(* names the source gives them; <<>> and 0 stand for "not set".  When a    *)
(* call has ended its request keeps the arguments it was made with, until  *)
(* the next call.                                                          *)
(***************************************************************************)
NoData == <<>>

NoSignature == [signer |-> <<>>, message |-> <<>>]

EmptyFrame ==
    [privyUserId |-> "", inviteCode |-> <<>>, existingCode |-> <<>>,
     publicKey |-> <<>>, message |-> <<>>, signedMessage |-> NoSignature,
     existingUser |-> 0, challenge |-> <<>>, user |-> <<>>]

\* the arguments of a call, its locals dropped
Arguments(f) ==
    [EmptyFrame EXCEPT !.privyUserId = f.privyUserId, !.inviteCode = f.inviteCode,
                       !.publicKey = f.publicKey, !.signedMessage = f.signedMessage]

\* a call starts: its arguments are bound, nothing is returned yet
Call(r, label, f) ==
    /\ pc[r] = "idle"
    /\ calls < MaxCalls
    /\ calls' = calls + 1
    /\ pc' = [pc EXCEPT ![r] = label]
    /\ frame' = [frame EXCEPT ![r] = f]
    /\ result' = [result EXCEPT ![r] = "NONE"]
    /\ data' = [data EXCEPT ![r] = NoData]

\* the call goes on to its next await with frame f
Goto(r, label, f) ==
    /\ calls' = calls
    /\ pc' = [pc EXCEPT ![r] = label]
    /\ frame' = [frame EXCEPT ![r] = f]
    /\ UNCHANGED <<result, data>>

\* the call ends: return { error: res }, return { data: d } or a throw
Return(r, res, d) ==
    /\ calls' = calls
    /\ pc' = [pc EXCEPT ![r] = "idle"]
    /\ frame' = [frame EXCEPT ![r] = Arguments(frame[r])]
    /\ result' = [result EXCEPT ![r] = res]
    /\ data' = [data EXCEPT ![r] = d]

(***************************************************************************)
(* createUser                                                              *)
(***************************************************************************)
InviteInputs == { <<"A">>, <<" ", "A", " ">>, <<"O">>, <<"X">> }

\* const privyUser = await privyClient.getUser(privyUserId)   (after trim)
callCreateUser(r) ==
    \E id \in PrivyIds, text \in InviteInputs :
        /\ Call(r, "cu_getUser",
                [EmptyFrame EXCEPT !.privyUserId = id, !.inviteCode = trim(text)])
        /\ UNCHANGED <<users, inviteCodes, challenges, now, errorLogged>>

\* if (!privyUser) ...; await prisma.user.findUnique(...)
cu_getUser(r) ==
    /\ pc[r] = "cu_getUser"
    /\ IF getUser(frame[r].privyUserId) = <<>>
       THEN Return(r, "UNAUTHORIZED", NoData)
       ELSE Goto(r, "cu_findUser", frame[r])
    /\ UNCHANGED <<users, inviteCodes, challenges, now, errorLogged>>

\* if (existingUser) ...; embeddedWallet; address; await prisma.inviteCode.findUnique(...)
cu_findUser(r) ==
    /\ pc[r] = "cu_findUser"
    /\ LET privyUser == getUser(frame[r].privyUserId)[1]
       IN IF findUserByPrivyId(users, frame[r].privyUserId) # 0
          THEN Return(r, "USER_ALREADY_EXISTS", NoData)
          ELSE IF embeddedWallet(privyUser) = <<>>
          THEN Return(r, "WALLET_MISSING", NoData)
          ELSE Goto(r, "cu_findCode", frame[r])
    /\ UNCHANGED <<users, inviteCodes, challenges, now, errorLogged>>

\* checkCode with the cap compared by > instead of >=
checkCode_OffByOne(code) ==
    IF code = <<>> \/ code[1].isActive = FALSE THEN "INVALID_INVITE_CODE"
    ELSE IF code[1].used > code[1].maxUses THEN "CODE_ALREADY_USED"
    ELSE "OK"

\* the two checks on existingCode
checkCode(code) ==
    IF code = <<>> \/ code[1].isActive = FALSE THEN "INVALID_INVITE_CODE"
    ELSE IF code[1].used >= code[1].maxUses THEN "CODE_ALREADY_USED"
    ELSE "OK"

\* existingCode is read and checked; await prisma.$transaction(...)
cu_findCode(r) ==
    /\ pc[r] = "cu_findCode"
    /\ LET code == findInviteCode(inviteCodes, frame[r].inviteCode)
       IN IF checkCode(code) # "OK"
          THEN Return(r, checkCode(code), NoData)
          ELSE Goto(r, "cu_tx", [frame[r] EXCEPT !.existingCode = code])
    /\ UNCHANGED <<users, inviteCodes, challenges, now, errorLogged>>

\* a user table without unique constraints
userUniqueViolation_None(us, id, wallet) == FALSE

\* the unique constraints of the user table that tx.user.create can violate:
\* privyUserId and wallet are the keys of the findUnique calls
userUniqueViolation(us, id, wallet) ==
    \E i \in 1..Len(us) : us[i].privyUserId = id \/ us[i].wallet = wallet

\* the transaction's two writes; a violated constraint throws and rolls back
createUserTx(us, codes, id, wallet, code) ==
    IF userUniqueViolation(us, id, wallet)
    THEN [ok |-> FALSE, users |-> us, inviteCodes |-> codes, newUser |-> <<>>]
    ELSE LET newUser == [id |-> Len(us) + 1, privyUserId |-> id,
                         invitedById |-> code.id, wallet |-> wallet,
                         socialWallet |-> <<>>]
         IN [ok |-> TRUE,
             users |-> Append(us, newUser),
             inviteCodes |-> [codes EXCEPT ![code.id].used = code.used + 1],
             newUser |-> <<newUser>>]

\* the transaction commits or throws; return { data: newUser }
cu_tx(r) ==
    /\ pc[r] = "cu_tx"
    /\ LET privyUser == getUser(frame[r].privyUserId)[1]
           address == toLowerCase(embeddedWallet(privyUser)[1].address)
           tx == createUserTx(users, inviteCodes, privyUser.id, address,
                              frame[r].existingCode[1])
       IN /\ users' = tx.users
          /\ inviteCodes' = tx.inviteCodes
          /\ IF tx.ok THEN Return(r, "DATA", tx.newUser)
                      ELSE Return(r, "THROWN_UNIQUE_CONSTRAINT", NoData)
    /\ UNCHANGED <<challenges, now, errorLogged>>

(***************************************************************************)
(* Registration: no user yet, two invite codes.                            *)
(***************************************************************************)
InitialCodes ==
    << [code |-> <<"A">>, isActive |-> TRUE, used |-> 0, maxUses |-> CodeMaxUses],
       [code |-> <<"O">>, isActive |-> FALSE, used |-> 0, maxUses |-> CodeMaxUses] >>

InitRequests ==
    /\ calls = 0
    /\ pc = [r \in Reqs |-> "idle"]
    /\ frame = [r \in Reqs |-> EmptyFrame]
    /\ result = [r \in Reqs |-> "NONE"]
    /\ data = [r \in Reqs |-> NoData]
    /\ errorLogged = FALSE

Init ==
    /\ users = <<>>
    /\ inviteCodes = InitialCodes
    /\ challenges = {}
    /\ now = 0
    /\ InitRequests

Next ==
    \E r \in Reqs :
        \/ callCreateUser(r)
        \/ cu_getUser(r)
        \/ cu_findUser(r)
        \/ cu_findCode(r)
        \/ cu_tx(r)

Spec == Init /\ [][Next]_vars

(***************************************************************************)
(* Time.  differenceInMinutes (date-fns) counts full minutes, truncating   *)
(* toward zero; the clock counts half minutes, so a minute is 2 ticks.     *)
(* The clock is observed at 0 and, from 15.5 minutes on, every half minute *)
(* up to MaxNow.                                                           *)
(***************************************************************************)
ChallengeWindow == 15

Abs(x) == IF x < 0 THEN -x ELSE x

differenceInMinutes(later, earlier) ==
    LET d == later - earlier
    IN IF d >= 0 THEN d \div 2 ELSE -((-d) \div 2)

\* isExpired with the window one minute too long
isExpired_OffByOne(t, row) ==
    Abs(differenceInMinutes(t, row.updatedAt)) > ChallengeWindow + 1

\* if (Math.abs(differenceInMinutes(new Date(), challenge.updatedAt)) > 15)
isExpired(t, row) == Abs(differenceInMinutes(t, row.updatedAt)) > ChallengeWindow

Instants == {0} \cup {t \in 0..MaxNow : t > 2 * ChallengeWindow}

Tick ==
    /\ \E t \in Instants : t > now /\ now' = t
    /\ UNCHANGED <<users, inviteCodes, challenges, calls, pc, frame, result, data, errorLogged>>

(***************************************************************************)
(* generateChallenge                                                       *)
(***************************************************************************)
CandidateKeys == { <<"0", "x", "D", "4">>, <<"0", "x", "e", "5">> }

LinkIds == {"alice", "nobody"}

\* const user = await prisma.user.findUniqueOrThrow(...)
callGenerateChallenge(r) ==
    \E id \in LinkIds, key \in CandidateKeys :
        /\ Call(r, "gc_findUser",
                [EmptyFrame EXCEPT !.privyUserId = id, !.publicKey = key])
        /\ UNCHANGED <<users, inviteCodes, challenges, now, errorLogged>>

\* the template literal: Timestamp: ${Date.now()}, Wallet: ${publicKey}
challengeText(t, key) == [timestamp |-> t, wallet |-> key]

\* the user is found or the call throws; the text is built; await upsert
gc_findUser(r) ==
    /\ pc[r] = "gc_findUser"
    /\ LET user == findUserByPrivyId(users, frame[r].privyUserId)
       IN IF user = 0
          THEN Return(r, "THROWN_NOT_FOUND", NoData)
          ELSE Goto(r, "gc_upsert",
                    [frame[r] EXCEPT !.existingUser = user,
                                     !.message = <<challengeText(now, frame[r].publicKey)>>])
    /\ UNCHANGED <<users, inviteCodes, challenges, now, errorLogged>>

\* upsertChallenge as a plain create
upsertChallenge_CreateOnly(chs, uid, text, key, t) ==
    chs \cup {[userId |-> uid, message |-> text, publicKey |-> key, updatedAt |-> t]}

\* prisma.signingChallenge.upsert({ where: { userId }, update, create })
upsertChallenge(chs, uid, text, key, t) ==
    IF challengesOf(chs, uid) # {}
    THEN {IF c.userId = uid
          THEN [c EXCEPT !.message = text, !.publicKey = key, !.updatedAt = t]
          ELSE c : c \in chs}
    ELSE chs \cup {[userId |-> uid, message |-> text, publicKey |-> key,
                    updatedAt |-> t]}

\* the upsert is applied; return { data: res }
gc_upsert(r) ==
    /\ pc[r] = "gc_upsert"
    /\ LET f == frame[r]
       IN /\ challenges' = upsertChallenge(challenges, f.existingUser, f.message[1],
                                           f.publicKey, now)
          /\ Return(r, "DATA",
                    <<[userId |-> f.existingUser, message |-> f.message[1],
                       publicKey |-> f.publicKey, updatedAt |-> now]>>)
    /\ UNCHANGED <<users, inviteCodes, now, errorLogged>>

(***************************************************************************)
(* linkNewWallet                                                           *)
(***************************************************************************)
\* what a caller can send: nothing that verifies, or the signature of a
\* stored challenge text by the key of a candidate address
Signatures ==
    {NoSignature} \cup
    {[signer |-> k, message |-> <<c.message>>] : k \in CandidateKeys, c \in challenges}

\* verifyMessage that checks the signer only, not the text that was signed
verifyMessage_AnyMessage(address, text, signature) ==
    /\ signature # NoSignature
    /\ toLowerCase(signature.signer) = toLowerCase(address)

\* viemClient.verifyMessage({ address, message, signature })
verifyMessage(address, text, signature) ==
    /\ signature # NoSignature
    /\ toLowerCase(signature.signer) = toLowerCase(address)
    /\ signature.message = <<text>>

\* const existingUser = await prisma.user.findUniqueOrThrow(...)
callLinkNewWallet(r) ==
    \E id \in LinkIds, sig \in Signatures :
        /\ Call(r, "ln_findUser",
                [EmptyFrame EXCEPT !.privyUserId = id, !.signedMessage = sig])
        /\ UNCHANGED <<users, inviteCodes, challenges, now, errorLogged>>

\* the user is found or the call throws; await signingChallenge.findFirstOrThrow
ln_findUser(r) ==
    /\ pc[r] = "ln_findUser"
    /\ LET user == findUserByPrivyId(users, frame[r].privyUserId)
       IN IF user = 0
          THEN Return(r, "THROWN_NOT_FOUND", NoData)
          ELSE Goto(r, "ln_findChallenge", [frame[r] EXCEPT !.existingUser = user])
    /\ UNCHANGED <<users, inviteCodes, challenges, now, errorLogged>>

\* the challenge is read or the call throws; the freshness check; await verifyMessage
ln_findChallenge(r) ==
    /\ pc[r] = "ln_findChallenge"
    /\ LET rows == challengesOf(challenges, frame[r].existingUser)
       IN IF rows = {}
          THEN Return(r, "THROWN_NOT_FOUND", NoData)
          ELSE LET row == CHOOSE c \in rows : TRUE
               IN IF isExpired(now, row)
                  THEN Return(r, "CHALLENGE_EXPIRED", NoData)
                  ELSE Goto(r, "ln_verify", [frame[r] EXCEPT !.challenge = <<row>>])
    /\ UNCHANGED <<users, inviteCodes, challenges, now, errorLogged>>

\* if (!verified) ...; await prisma.$transaction(...)
ln_verify(r) ==
    /\ pc[r] = "ln_verify"
    /\ LET row == frame[r].challenge[1]
       IN IF ~verifyMessage(row.publicKey, row.message, frame[r].signedMessage)
          THEN Return(r, "INVALID_SIGNATURE", NoData)
          ELSE Goto(r, "ln_tx", frame[r])
    /\ UNCHANGED <<users, inviteCodes, challenges, now, errorLogged>>

\* linkWalletTx whose update of the user is lost while the delete is kept
linkWalletTx_DeleteOnly(us, chs, uid, row) ==
    IF challengesOf(chs, uid) = {}
    THEN [ok |-> FALSE, users |-> us, challenges |-> chs]
    ELSE [ok |-> TRUE, users |-> us, challenges |-> chs \ challengesOf(chs, uid)]

\* the transaction's two writes: delete where userId (throws when there is no
\* such row, and rolls back), then update the user's socialWallet
linkWalletTx(us, chs, uid, row) ==
    IF challengesOf(chs, uid) = {}
    THEN [ok |-> FALSE, users |-> us, challenges |-> chs]
    ELSE [ok |-> TRUE,
          users |-> [us EXCEPT ![uid].socialWallet = toLowerCase(row.publicKey)],
          challenges |-> chs \ challengesOf(chs, uid)]

\* the transaction commits or throws; await updateUserSocialProfiles(...)
ln_tx(r) ==
    /\ pc[r] = "ln_tx"
    /\ LET tx == linkWalletTx(users, challenges, frame[r].existingUser,
                              frame[r].challenge[1])
       IN /\ users' = tx.users
          /\ challenges' = tx.challenges
          /\ IF tx.ok
             THEN Goto(r, "ln_side",
                       [frame[r] EXCEPT !.user = <<tx.users[frame[r].existingUser]>>])
             ELSE Return(r, "THROWN_NOT_FOUND", NoData)
    /\ UNCHANGED <<inviteCodes, now, errorLogged>>

\* try { await updateUserSocialProfiles(...); updateRecommendations(...) }
\* catch (err) { console.error(...) }
\* profiles: the awaited call resolves or rejects; recommendations: the call
\* that is not awaited (and not reached when the first rejects) returns,
\* throws, or returns a promise that rejects later.
caught(profiles, recommendations) ==
    profiles = "rejects" \/ recommendations = "throws"

\* afterSideEffects without the try/catch: what is caught there is thrown
afterSideEffects_Uncaught(profiles, recommendations) ==
    IF caught(profiles, recommendations) THEN "THROWN_SIDE_EFFECT" ELSE "DATA"

\* what the call ends with once the try statement is over
afterSideEffects(profiles, recommendations) == "DATA"

\* the side effects end one way or another; return { data: user }
ln_side(r) ==
    /\ pc[r] = "ln_side"
    /\ \E profiles \in {"resolves", "rejects"},
          recommendations \in {"returns", "throws", "rejects"} :
          LET res == afterSideEffects(profiles, recommendations)
          IN /\ Return(r, res, IF res = "DATA" THEN frame[r].user ELSE NoData)
             /\ errorLogged' = (errorLogged \/ caught(profiles, recommendations))
    /\ UNCHANGED <<users, inviteCodes, challenges, now>>

(***************************************************************************)
(* Wallet linking: alice is registered (through code A), no challenge yet. *)
(***************************************************************************)
InitLink ==
    /\ users = << [id |-> 1, privyUserId |-> "alice", invitedById |-> 1,
                   wallet |-> <<"0", "x", "a", "1">>, socialWallet |-> <<>>] >>
    /\ inviteCodes = [InitialCodes EXCEPT ![1].used = 1]
    /\ challenges = {}
    /\ now = 0
    /\ InitRequests

NextLink ==
    \E r \in Reqs :
        \/ callGenerateChallenge(r)
        \/ gc_findUser(r)
        \/ gc_upsert(r)
        \/ callLinkNewWallet(r)
        \/ ln_findUser(r)
        \/ ln_findChallenge(r)
        \/ ln_verify(r)
        \/ ln_tx(r)
        \/ ln_side(r)

SpecLink == InitLink /\ [][NextLink]_vars

(***************************************************************************)
(* Wallet linking over time: the clock advances at any point of a call,    *)
(* and the calls are made one after the other, by the first request.       *)
(***************************************************************************)
NextClock ==
    \/ Tick
    \/ \E r \in {1} :
        \/ callGenerateChallenge(r)
        \/ gc_findUser(r)
        \/ gc_upsert(r)
        \/ callLinkNewWallet(r)
        \/ ln_findUser(r)
        \/ ln_findChallenge(r)
        \/ ln_verify(r)
        \/ ln_tx(r)
        \/ ln_side(r)

SpecClock == InitLink /\ [][NextClock]_vars

(***************************************************************************)
(* Properties.                                                             *)
(***************************************************************************)
\* request r leaves the await named label in this step
Leaves(r, label) == pc[r] = label /\ pc'[r] # label

\* the number of user rows admitted by invite code c
admitted(us, c) == Cardinality({i \in 1..Len(us) : us[i].invitedById = c})

\* C1: every createUser that returns a user adds exactly one user row that
\* references the invite code and makes the code's used counter one more
\* than it was right before the commit.
C1_RegisterCommitsBoth ==
    [][\A r \in Reqs :
        (Leaves(r, "cu_tx") /\ result'[r] = "DATA") =>
            LET c == frame[r].existingCode[1].id
            IN /\ Len(users') = Len(users) + 1
               /\ users'[Len(users')].invitedById = c
               /\ admitted(users', c) = admitted(users, c) + 1
               /\ inviteCodes'[c].used = inviteCodes[c].used + 1]_vars

\* C2: the number of users admitted by an invite code never exceeds the
\* code's maxUses.
C2_AdmittedWithinCap ==
    \A c \in 1..Len(inviteCodes) : admitted(users, c) <= inviteCodes[c].maxUses

\* C3: there is at most one user row per identity, and a createUser whose
\* insert meets an existing row of its identity throws and changes neither
\* the users nor the invite codes.
C3_OneUserPerIdentity ==
    /\ [](\A i, j \in 1..Len(users) :
            users[i].privyUserId = users[j].privyUserId => i = j)
    /\ [][\A r \in Reqs :
            (Leaves(r, "cu_tx") /\ findUserByPrivyId(users, frame[r].privyUserId) # 0) =>
                /\ result'[r] = "THROWN_UNIQUE_CONSTRAINT"
                /\ data'[r] = NoData
                /\ users' = users
                /\ inviteCodes' = inviteCodes]_vars

\* C3 witness: two createUser calls for alice raced past the existing-user
\* check; one returned the user, the other was rejected by the store, and
\* there is one user and one use of the code.
C3_RaceRejected ==
    \E r1, r2 \in Reqs :
        /\ r1 # r2
        /\ pc[r1] = "idle" /\ pc[r2] = "idle"
        /\ frame[r1].privyUserId = "alice" /\ frame[r2].privyUserId = "alice"
        /\ result[r1] = "DATA"
        /\ result[r2] = "THROWN_UNIQUE_CONSTRAINT"
        /\ Len(users) = 1
        /\ inviteCodes[1].used = 1

\* C8: a createUser that has passed the identity, existing-user and wallet
\* checks and reads an active code whose used equals maxUses returns
\* CODE_ALREADY_USED and changes neither the users nor the invite codes.
C8_FullCodeRejected ==
    [][\A r \in Reqs :
        (/\ Leaves(r, "cu_findCode")
         /\ \E c \in 1..Len(inviteCodes) :
               /\ inviteCodes[c].code = frame[r].inviteCode
               /\ inviteCodes[c].isActive
               /\ inviteCodes[c].used = inviteCodes[c].maxUses) =>
            /\ pc'[r] = "idle"
            /\ result'[r] = "CODE_ALREADY_USED"
            /\ data'[r] = NoData
            /\ users' = users
            /\ inviteCodes' = inviteCodes]_vars

\* C8 witness: code A has maxUses 1; alice registered with it, used is 1,
\* and bob's registration with the same code ended with CODE_ALREADY_USED.
C8_SecondRegistrationRejected ==
    \E r \in Reqs :
        /\ pc[r] = "idle"
        /\ frame[r].privyUserId = "bob"
        /\ frame[r].inviteCode = <<"A">>
        /\ result[r] = "CODE_ALREADY_USED"
        /\ inviteCodes[1].maxUses = 1
        /\ inviteCodes[1].used = 1
        /\ Len(users) = 1
        /\ users[1].privyUserId = "alice"
        /\ users[1].invitedById = 1

\* C4: in every step, a user's challenge row disappears exactly when a
\* linkNewWallet transaction of that user commits, and that same step sets
\* the user's socialWallet to the lower-cased publicKey of the challenge the
\* call fetched; socialWallet changes in no other step, and a transaction
\* that throws changes nothing.
C4_LinkIsAtomic ==
    [][\A u \in 1..Len(users) :
        LET removed == challengesOf(challenges, u) # {} /\ challengesOf(challenges', u) = {}
            commits(r) == /\ Leaves(r, "ln_tx") /\ pc'[r] = "ln_side"
                          /\ frame[r].existingUser = u
            throws(r) == /\ Leaves(r, "ln_tx") /\ pc'[r] = "idle"
                         /\ frame[r].existingUser = u
        IN /\ removed => \E r \in Reqs : commits(r)
           /\ users'[u].socialWallet # users[u].socialWallet => removed
           /\ \A r \in Reqs :
                 commits(r) =>
                    /\ removed
                    /\ users'[u].socialWallet =
                          toLowerCase(frame[r].challenge[1].publicKey)
           /\ \A r \in Reqs :
                 throws(r) => users' = users /\ challenges' = challenges]_vars

\* C4 witness: a linkNewWallet for the candidate address 0xD4 has committed:
\* no challenge is left and alice's socialWallet is 0xd4.
C4_Linked ==
    \E r \in Reqs :
        /\ pc[r] = "ln_side"
        /\ frame[r].challenge[1].publicKey = <<"0", "x", "D", "4">>
        /\ challenges = {}
        /\ users[1].socialWallet = <<"0", "x", "d", "4">>

\* the time since the last update of challenge row c, in half minutes
elapsed(c) == now - c.updatedAt

\* C5 as stated: a linkNewWallet that fetches a challenge last updated more
\* than 15 minutes ago returns CHALLENGE_EXPIRED and leaves the challenge
\* and the user as they were.
C5_ExpiredAfterFifteenMinutes ==
    [][\A r \in Reqs :
        (/\ Leaves(r, "ln_findChallenge")
         /\ \E c \in challengesOf(challenges, frame[r].existingUser) :
               elapsed(c) > 2 * 15) =>
            /\ pc'[r] = "idle"
            /\ result'[r] = "CHALLENGE_EXPIRED"
            /\ challenges' = challenges
            /\ users' = users]_vars

\* C5 amended: a linkNewWallet that fetches a challenge last updated at
\* least 16 minutes ago (more than 15 full minutes) returns
\* CHALLENGE_EXPIRED, whatever the signature, and leaves the challenge and
\* the user as they were.
C5_ExpiredAfterSixteenMinutes ==
    [][\A r \in Reqs :
        (/\ Leaves(r, "ln_findChallenge")
         /\ \E c \in challengesOf(challenges, frame[r].existingUser) :
               elapsed(c) >= 2 * 16) =>
            /\ pc'[r] = "idle"
            /\ result'[r] = "CHALLENGE_EXPIRED"
            /\ data'[r] = NoData
            /\ challenges' = challenges
            /\ users' = users]_vars

\* C5 witness: a linkNewWallet made with the right signature of the stored
\* challenge, 16 minutes after it was issued, ended with CHALLENGE_EXPIRED;
\* the challenge is still there and no wallet is linked.
C5_ExpiredDespiteValidSignature ==
    \E r \in Reqs, c \in challenges :
        /\ pc[r] = "idle"
        /\ result[r] = "CHALLENGE_EXPIRED"
        /\ now - c.updatedAt >= 2 * 16
        /\ frame[r].signedMessage = [signer |-> c.publicKey, message |-> <<c.message>>]
        /\ users[c.userId].socialWallet = <<>>

\* the signature of request r is not one by the key of the challenge's
\* address over the challenge's text
mismatch(sig, c) ==
    \/ sig = NoSignature
    \/ toLowerCase(sig.signer) # toLowerCase(c.publicKey)
    \/ sig.message # <<c.message>>

\* C6: a linkNewWallet whose signature does not match the text and address
\* of the (fresh) challenge it fetched returns INVALID_SIGNATURE and changes
\* neither the challenge nor the user.
C6_InvalidSignatureChangesNothing ==
    [][\A r \in Reqs :
        (/\ Leaves(r, "ln_verify")
         /\ mismatch(frame[r].signedMessage, frame[r].challenge[1])) =>
            /\ pc'[r] = "idle"
            /\ result'[r] = "INVALID_SIGNATURE"
            /\ data'[r] = NoData
            /\ challenges' = challenges
            /\ users' = users]_vars

\* C6 witness: one call ended with INVALID_SIGNATURE for a signature by the
\* wrong key, and a call with the right signature of the same challenge has
\* then committed the link.
C6_RetrySucceeds ==
    \E r1, r2 \in Reqs :
        /\ r1 # r2
        /\ pc[r1] = "idle" /\ result[r1] = "INVALID_SIGNATURE"
        /\ pc[r2] = "ln_side"
        /\ frame[r1].signedMessage.message = frame[r2].signedMessage.message
        /\ frame[r1].signedMessage.signer # frame[r2].signedMessage.signer
        /\ users[1].socialWallet = toLowerCase(frame[r2].signedMessage.signer)

\* C7: a user never has more than one challenge row, and when a
\* generateChallenge applies its upsert the user's only row holds that
\* call's text and address.
C7_OneChallengePerUser ==
    /\ [](\A c1, c2 \in challenges : c1.userId = c2.userId => c1 = c2)
    /\ [][\A r \in Reqs :
            Leaves(r, "gc_upsert") =>
                challengesOf(challenges', frame[r].existingUser) =
                    {[userId |-> frame[r].existingUser,
                      message |-> frame[r].message[1],
                      publicKey |-> frame[r].publicKey,
                      updatedAt |-> now]}]_vars

\* C7 witness: two generateChallenge calls for alice have returned, for
\* different addresses, and the one row left is what one of them returned.
C7_Overwritten ==
    \E r1, r2 \in Reqs :
        /\ r1 # r2
        /\ pc[r1] = "idle" /\ pc[r2] = "idle"
        /\ result[r1] = "DATA" /\ result[r2] = "DATA"
        /\ frame[r1].publicKey = <<"0", "x", "D", "4">>
        /\ frame[r2].publicKey = <<"0", "x", "e", "5">>
        /\ challenges = {data[r2][1]}

\* C9: once the link is committed, the call returns the updated user
\* whatever the side effects do, and that step changes neither the user
\* nor the challenges.
C9_SideEffectsNeverFail ==
    [][\A r \in Reqs :
        Leaves(r, "ln_side") =>
            /\ pc'[r] = "idle"
            /\ result'[r] = "DATA"
            /\ data'[r] = frame[r].user
            /\ data'[r][1].socialWallet = toLowerCase(frame[r].challenge[1].publicKey)
            /\ users' = users
            /\ challenges' = challenges]_vars

\* C9 witness: a side effect failed and was logged, the call returned the
\* user, the wallet is linked and no challenge is left.
C9_LoggedAndLinked ==
    \E r \in Reqs :
        /\ errorLogged
        /\ pc[r] = "idle"
        /\ result[r] = "DATA"
        /\ frame[r].signedMessage # NoSignature
        /\ data[r][1].socialWallet # <<>>
        /\ users[1].socialWallet = data[r][1].socialWallet
        /\ challenges = {}

\* C10: the challenge row a linkNewWallet transaction removes is the one the
\* call fetched and verified, and the socialWallet it sets is the lower-cased
\* publicKey of the row it removes.
C10_DeletesWhatItVerified ==
    [][\A r \in Reqs :
        (Leaves(r, "ln_tx") /\ pc'[r] = "ln_side") =>
            /\ challengesOf(challenges, frame[r].existingUser) = {frame[r].challenge[1]}
            /\ \A c \in challengesOf(challenges, frame[r].existingUser) :
                  users'[frame[r].existingUser].socialWallet = toLowerCase(c.publicKey)]_vars

====
